---- MODULE Spec2Model ----
(***************************************************************************)
(* Model of src/io.ipynb: a script that downloads a CSV dataset, label-    *)
(* encodes one categorical column and renders a fixed sequence of charts   *)
(* to PNG files, every chart being guarded by column-presence checks.      *)
(*                                                                         *)
(* A dataset is abstracted to its set of column names and the subset of    *)
(* them that pandas types as numeric.  A figure is abstracted to the       *)
(* arguments the plotting primitive was called with (for the heatmap: the  *)
(* columns of the correlation matrix).  Diagnostic texts are written in    *)
(* ASCII (the source prints them in Portuguese with diacritics).           *)
(***************************************************************************)
EXTENDS Integers, FiniteSets, Sequences, TLC

\* ------------------------------------------------------------------ bounds
\* Number of times the script is run against the same published dataset.
MaxRuns == 2
\* Largest number of columns of the arbitrarily typed tables of InitTable.
MaxCols == 3

\* --------------------------------------------------------------- constants
None == "None"

CategoriaPrompt == "CategoriaPrompt"

Encoded == "CategoriaPrompt_encoded"

\* The list both loops of steps 1 and 2 iterate over.
HumanCols ==
    << "Coerencia (Humana)", "Relevancia (Humana)",
       "Profundidade (Humana)", "Consciencia (Humana)" >>

\* Column names the orchestrator tests for.
ExpectedColumns ==
    { CategoriaPrompt, "BLEU", "ROUGE", "Perplexidade", "Diversidade",
      "Originalidade" } \cup { HumanCols[k] : k \in 1..Len(HumanCols) }

\* Column names a published CSV may carry: the expected ones, a column that
\* already bears the name of the derived column, and an unrelated one.
Universe == ExpectedColumns \cup { Encoded, "Extra" }

\* ----------------------------------------------------------------- dataset
\* load_data_from_url's "None".
NoDataset == [loaded |-> FALSE, columns |-> {}, numeric |-> {}]

DataFrame(columns, numeric) ==
    [loaded |-> TRUE, columns |-> columns, numeric |-> numeric]

\* Tables following the expected schema: CategoriaPrompt holds strings, every
\* other column holds numbers; any subset of the columns may be missing.
SchemaTables ==
    { DataFrame(c, c \ {CategoriaPrompt}) : c \in SUBSET (Universe \ {"Extra"}) }

\* Tables of at most MaxCols columns, each of either type.
SmallTables ==
    UNION { { DataFrame(c, n) : n \in SUBSET c } :
            c \in { s \in SUBSET Universe : Cardinality(s) <= MaxCols } }

\* Outcomes of the single HTTP fetch + decode + parse attempt.
FetchOutcomes == { "ok", "network", "http", "decode", "parse" }

\* ------------------------------------------------------ rendering surface
\* Mutant of PltClose: save_fig without its plt.close().
PltCloseForgotten(open) == open

\* create_figure: plt.figure opens one more figure.
CreateFigure(open) == open + 1

\* plt.close() closes the current figure, if there is one.
PltClose(open) == IF open > 0 THEN open - 1 ELSE 0

\* -------------------------------------------------------- chart generators
\* A generator invocation: the plotting primitive, the column names handed to
\* it, the correlation matrix's columns (heatmap only) and the file to save.
NoCall ==
    [gen |-> None, x |-> None, y |-> None, hue |-> None, style |-> None,
     corr |-> {}, filename |-> None]

GenerateBoxplot(df, x, y, filename, hue) ==
    [gen |-> "boxplot", x |-> x, y |-> y, hue |-> hue, style |-> None,
     corr |-> {}, filename |-> filename]

GenerateHistogram(df, column, filename) ==
    [gen |-> "histogram", x |-> column, y |-> None, hue |-> None, style |-> None,
     corr |-> {}, filename |-> filename]

GenerateScatterplot(df, x, y, filename, hue, style) ==
    [gen |-> "scatterplot", x |-> x, y |-> y, hue |-> hue, style |-> style,
     corr |-> {}, filename |-> filename]

\* Mutant of GenerateHeatmap: the matrix is taken over the whole dataset,
\* without select_dtypes.
GenerateHeatmapUnselected(df, filename) ==
    [gen |-> "heatmap", x |-> None, y |-> None, hue |-> None, style |-> None,
     corr |-> df.columns, filename |-> filename]

\* df.select_dtypes(include=np.number).corr(): one row and one column per
\* numeric-typed column of the dataset handed in.
GenerateHeatmap(df, filename) ==
    [gen |-> "heatmap", x |-> None, y |-> None, hue |-> None, style |-> None,
     corr |-> df.numeric, filename |-> filename]

GenerateViolinplot(df, x, y, filename, hue) ==
    [gen |-> "violinplot", x |-> x, y |-> y, hue |-> hue, style |-> None,
     corr |-> {}, filename |-> filename]

\* The column names a call hands to its plotting primitive.
Refs(call) == { call.x, call.y, call.hue, call.style } \ { None }

\* What a saved image shows: everything of the call but the file's name.
Content(call) ==
    [gen |-> call.gen, x |-> call.x, y |-> call.y, hue |-> call.hue,
     style |-> call.style, corr |-> call.corr]

\* plt.savefig into GRAPHPATH: the file is created, or replaced.
Saved(files, call) ==
    [f \in DOMAIN files \cup {call.filename} |->
        IF f = call.filename THEN Content(call) ELSE files[f]]

NoFiles == [f \in {} |-> Content(NoCall)]

\* --------------------------------------------- the orchestrator's decisions
\* Each analysis step either invokes one generator or prints one diagnostic.
Invoke(call) == [call |-> call, msg |-> None]

Skip(msg) == [call |-> NoCall, msg |-> msg]

\* Mutant of Step1: the histogram's file name leaves out the column.
Step1OneName(df, col) ==
    IF col \in df.columns
    THEN Invoke(GenerateHistogram(df, col, "1_hist.png"))
    ELSE Skip("A coluna '" \o col \o "' nao foi encontrada no DataFrame.")

Step1(df, col) ==
    IF col \in df.columns
    THEN Invoke(GenerateHistogram(df, col, "1_hist_" \o col \o ".png"))
    ELSE Skip("A coluna '" \o col \o "' nao foi encontrada no DataFrame.")

Step2(df, col) ==
    IF CategoriaPrompt \in df.columns /\ col \in df.columns
    THEN Invoke(GenerateBoxplot(df, CategoriaPrompt, col,
                                "2_boxplot_" \o col \o ".png", None))
    ELSE Skip("Colunas necessarias ('CategoriaPrompt' ou '" \o col
              \o "') nao encontradas.")

\* Mutant of Step3: the derived column is named as hue without the test.
Step3HueUntested(df) ==
    IF "BLEU" \in df.columns /\ "ROUGE" \in df.columns
    THEN Invoke(GenerateScatterplot(df, "BLEU", "ROUGE", "3_scatter_bleu_rouge.png",
                    Encoded, None))
    ELSE Skip("Colunas 'BLEU' ou 'ROUGE' nao encontradas.")

Step3(df) ==
    IF "BLEU" \in df.columns /\ "ROUGE" \in df.columns
    THEN Invoke(GenerateScatterplot(df, "BLEU", "ROUGE", "3_scatter_bleu_rouge.png",
                    IF Encoded \in df.columns THEN Encoded ELSE None, None))
    ELSE Skip("Colunas 'BLEU' ou 'ROUGE' nao encontradas.")

\* Mutant of Step4: the test names the column of the step before.
Step4WrongColumn(df) ==
    IF "BLEU" \in df.columns
    THEN Invoke(GenerateHistogram(df, "Perplexidade", "4_hist_perplexidade.png"))
    ELSE Skip("Coluna 'Perplexidade' nao encontrada.")

\* Mutant of Step4: the histogram is drawn without the column test.
Step4Untested(df) ==
    Invoke(GenerateHistogram(df, "Perplexidade", "4_hist_perplexidade.png"))

Step4(df) ==
    IF "Perplexidade" \in df.columns
    THEN Invoke(GenerateHistogram(df, "Perplexidade", "4_hist_perplexidade.png"))
    ELSE Skip("Coluna 'Perplexidade' nao encontrada.")

Step5(df) ==
    IF "Perplexidade" \in df.columns /\ CategoriaPrompt \in df.columns
    THEN Invoke(GenerateViolinplot(df, CategoriaPrompt, "Perplexidade",
                                   "5_violin_perplexidade.png", None))
    ELSE Skip("Colunas necessarias ('CategoriaPrompt' ou 'Perplexidade') nao encontradas.")

Step6(df) ==
    IF "Perplexidade" \in df.columns /\ "Coerencia (Humana)" \in df.columns
    THEN Invoke(GenerateScatterplot(df, "Perplexidade", "Coerencia (Humana)",
                    "6_scatter_perplexidade_coerencia.png",
                    IF Encoded \in df.columns THEN Encoded ELSE None, None))
    ELSE Skip("Colunas 'Perplexidade' ou 'Coerencia (Humana)' nao encontradas.")

\* The heatmap is invoked without any test.
Step7(df) == Invoke(GenerateHeatmap(df, "7_heatmap.png"))

Step8(df) ==
    IF "Diversidade" \in df.columns /\ "Originalidade" \in df.columns
    THEN Invoke(GenerateScatterplot(df, "Diversidade", "Originalidade",
                    "8_scatter_diversidade_originalidade.png",
                    IF Encoded \in df.columns THEN Encoded ELSE None, None))
    ELSE Skip("Colunas 'Diversidade' ou 'Originalidade' nao encontradas.")

\* Mutant of Step9: the file name of step 10, copied along with its block.
Step9CopiedName(df) ==
    IF "Diversidade" \in df.columns /\ CategoriaPrompt \in df.columns
    THEN Invoke(GenerateBoxplot(df, CategoriaPrompt, "Diversidade",
                                "10_boxplot_originalidade.png", None))
    ELSE Skip("Colunas necessarias ('CategoriaPrompt' ou 'Diversidade') nao encontradas.")

Step9(df) ==
    IF "Diversidade" \in df.columns /\ CategoriaPrompt \in df.columns
    THEN Invoke(GenerateBoxplot(df, CategoriaPrompt, "Diversidade",
                                "9_boxplot_diversidade.png", None))
    ELSE Skip("Colunas necessarias ('CategoriaPrompt' ou 'Diversidade') nao encontradas.")

\* Mutant of Step10: the test leaves out CategoriaPrompt.
Step10HalfTested(df) ==
    IF "Originalidade" \in df.columns
    THEN Invoke(GenerateBoxplot(df, CategoriaPrompt, "Originalidade",
                                "10_boxplot_originalidade.png", None))
    ELSE Skip("Colunas necessarias ('CategoriaPrompt' ou 'Originalidade') nao encontradas.")

Step10(df) ==
    IF "Originalidade" \in df.columns /\ CategoriaPrompt \in df.columns
    THEN Invoke(GenerateBoxplot(df, CategoriaPrompt, "Originalidade",
                                "10_boxplot_originalidade.png", None))
    ELSE Skip("Colunas necessarias ('CategoriaPrompt' ou 'Originalidade') nao encontradas.")

Step11(df) ==
    IF "Profundidade (Humana)" \in df.columns /\ "Consciencia (Humana)" \in df.columns
    THEN Invoke(GenerateScatterplot(df, "Profundidade (Humana)", "Consciencia (Humana)",
                    "11_scatter_profundidade_consciencia.png",
                    IF Encoded \in df.columns THEN Encoded ELSE None, None))
    ELSE Skip("Colunas 'Profundidade (Humana)' ou 'Consciencia (Humana)' nao encontradas.")

\* Mutant of LabelEncode: the codes replace the source column.
LabelEncodeInPlace(df) ==
    IF CategoriaPrompt \in df.columns
    THEN [df |-> DataFrame((df.columns \ {CategoriaPrompt}) \cup {Encoded},
                           (df.numeric \ {CategoriaPrompt}) \cup {Encoded}),
          msg |-> None]
    ELSE [df |-> df,
          msg |-> "Coluna 'CategoriaPrompt' nao encontrada para Label Encoding."]

\* The label-encoding stage: the derived column is assigned (added, or
\* overwritten when the table already has a column of that name) as integers.
LabelEncode(df) ==
    IF CategoriaPrompt \in df.columns
    THEN [df |-> DataFrame(df.columns \cup {Encoded}, df.numeric \cup {Encoded}),
          msg |-> None]
    ELSE [df |-> df,
          msg |-> "Coluna 'CategoriaPrompt' nao encontrada para Label Encoding."]

\* Mutant of LoadDataFromUrl: only the request's own errors are caught, so a
\* body that does not decode or parse raises out of the loader.
LoadDataFromUrlNarrowExcept(outcome, content) ==
    IF outcome = "ok"
    THEN [df |-> content, msg |-> None, raised |-> FALSE]
    ELSE [df |-> NoDataset, msg |-> "Erro ao carregar dados da URL: " \o outcome,
          raised |-> outcome \in {"decode", "parse"}]

\* The decisions of the analysis section, in program order, on dataset d.
Decisions(d) ==
    [k \in 1..Len(HumanCols) |-> Step1(d, HumanCols[k])] \o
    [k \in 1..Len(HumanCols) |-> Step2(d, HumanCols[k])] \o
    << Step3(d), Step4(d), Step5(d), Step6(d), Step7(d), Step8(d), Step9(d),
       Step10(d), Step11(d) >>

RECURSIVE SaveAll(_, _)
SaveAll(decisions, files) ==
    IF decisions = << >> THEN files
    ELSE SaveAll(Tail(decisions),
                 IF Head(decisions).call = NoCall THEN files
                 ELSE Saved(files, Head(decisions).call))

\* The image files a run on table t leaves in an empty output directory when
\* nothing raises: the encoding stage, then every analysis step in turn.
CompletedRun(t) == SaveAll(Decisions(LabelEncode(t).df), NoFiles)

\* load_data_from_url: every failure of the fetch, the status check, the
\* decoding or the parsing is caught, reported and turned into None.
LoadDataFromUrl(outcome, content) ==
    IF outcome = "ok"
    THEN [df |-> content, msg |-> None, raised |-> FALSE]
    ELSE [df |-> NoDataset, msg |-> "Erro ao carregar dados da URL: " \o outcome,
          raised |-> FALSE]

\* ------------------------------------------------------------------- state
VARIABLES
    csv,       \* the table published at DATASET_URL (never changes)
    df,        \* the script's dataset (NoDataset until loaded)
    pc,        \* position in __main__
    i,         \* index into HumanCols inside the loops of steps 1 and 2
    status,    \* "running", "done", "exited" (exit()), "raised" (uncaught exception)
    frame,     \* the generator call in progress, between plotting and save_fig
    figs,      \* number of open matplotlib figures
    disk,      \* GRAPHPATH: file name -> what the image shows
    written,   \* names of the files this run has written
    nsaved,    \* number of plt.savefig calls completed in this run
    ncalls,    \* number of generator invocations made in this run
    stdout,    \* lines printed by this run
    fetch,     \* outcome of this run's acquisition ("pending" before it)
    run,       \* ordinal of the current run
    doneRuns   \* the sets of file names written by the runs that completed

vars ==
    << csv, df, pc, i, status, frame, figs, disk, written, nsaved, ncalls,
       stdout, fetch, run, doneRuns >>

AnalysisPcs == { "S1", "S2", "S3", "S4", "S5", "S6", "S7", "S8", "S9", "S10", "S11" }

\* The statement that follows analysis position (p, k).
After(p, k) ==
    CASE p \in {"S1", "S2"} /\ k < Len(HumanCols) -> [pc |-> p, i |-> k + 1]
      [] p = "S1"  -> [pc |-> "S2", i |-> 1]
      [] p = "S2"  -> [pc |-> "S3", i |-> 1]
      [] p = "S3"  -> [pc |-> "S4", i |-> 1]
      [] p = "S4"  -> [pc |-> "S5", i |-> 1]
      [] p = "S5"  -> [pc |-> "S6", i |-> 1]
      [] p = "S6"  -> [pc |-> "S7", i |-> 1]
      [] p = "S7"  -> [pc |-> "S8", i |-> 1]
      [] p = "S8"  -> [pc |-> "S9", i |-> 1]
      [] p = "S9"  -> [pc |-> "S10", i |-> 1]
      [] p = "S10" -> [pc |-> "S11", i |-> 1]
      [] p = "S11" -> [pc |-> "END", i |-> 1]

\* The state a fresh process starts in; the output directory and the
\* published table outlive the process.
Fresh ==
    /\ df = NoDataset
    /\ pc = "INIT"
    /\ i = 1
    /\ status = "running"
    /\ frame = NoCall
    /\ figs = 0
    /\ written = {}
    /\ nsaved = 0
    /\ ncalls = 0
    /\ stdout = << >>
    /\ fetch = "pending"

InitCommon ==
    /\ Fresh
    /\ disk = NoFiles
    /\ run = 1
    /\ doneRuns = {}

Init == csv \in SchemaTables /\ InitCommon

InitTable == csv \in SmallTables /\ InitCommon

\* ----------------------------------------------------------------- actions
\* drive.mount and the two os.makedirs calls.
Mount ==
    /\ status = "running" /\ pc = "INIT"
    /\ pc' = "ACQUIRE"
    /\ UNCHANGED << csv, df, i, status, frame, figs, disk, written, nsaved,
                    ncalls, stdout, fetch, run, doneRuns >>

\* df = load_data_from_url(DATASET_URL)
Acquire ==
    /\ status = "running" /\ pc = "ACQUIRE"
    /\ \E outcome \in FetchOutcomes :
         LET r == LoadDataFromUrl(outcome, csv) IN
           /\ fetch' = outcome
           /\ IF r.raised
              THEN /\ status' = "raised"
                   /\ UNCHANGED << df, pc, stdout >>
              ELSE /\ df' = r.df
                   /\ stdout' = IF r.msg = None THEN stdout ELSE Append(stdout, r.msg)
                   /\ pc' = "CHECK"
                   /\ UNCHANGED status
    /\ UNCHANGED << csv, i, frame, figs, disk, written, nsaved, ncalls, run, doneRuns >>

\* if df is None: print(...); exit()
CheckLoaded ==
    /\ status = "running" /\ pc = "CHECK"
    /\ IF df = NoDataset
       THEN /\ stdout' = Append(stdout, "Nao foi possivel carregar os dados. Encerrando.")
            /\ status' = "exited"
            /\ UNCHANGED pc
       ELSE /\ pc' = "ENCODE"
            /\ UNCHANGED << stdout, status >>
    /\ UNCHANGED << csv, df, i, frame, figs, disk, written, nsaved, ncalls,
                    fetch, run, doneRuns >>

\* The label-encoding block; fit_transform is an unguarded library call.
Encode ==
    /\ status = "running" /\ pc = "ENCODE"
    /\ LET r == LabelEncode(df) IN
         \E ok \in BOOLEAN :
           IF ok \/ r.msg # None
           THEN /\ df' = r.df
                /\ stdout' = IF r.msg = None THEN stdout ELSE Append(stdout, r.msg)
                /\ pc' = "S1"
                /\ UNCHANGED status
           ELSE /\ status' = "raised"
                /\ UNCHANGED << df, stdout, pc >>
    /\ UNCHANGED << csv, i, frame, figs, disk, written, nsaved, ncalls,
                    fetch, run, doneRuns >>

\* One analysis step up to the plotting primitive: the column test, then
\* either the diagnostic, or the generator's create_figure and seaborn call.
\* The seaborn call raises when it is handed a column the dataset lacks, and
\* may raise on data it cannot draw; nothing catches what it raises.
Analysis(decision) ==
    /\ status = "running" /\ frame = NoCall
    /\ IF decision.call = NoCall
       THEN /\ stdout' = Append(stdout, decision.msg)
            /\ pc' = After(pc, i).pc
            /\ i' = After(pc, i).i
            /\ UNCHANGED << status, frame, figs, ncalls >>
       ELSE /\ ncalls' = ncalls + 1
            /\ frame' = decision.call
            /\ figs' = CreateFigure(figs)
            /\ \E ok \in BOOLEAN :
                 status' = IF ok /\ Refs(decision.call) \subseteq df.columns
                           THEN "running" ELSE "raised"
            /\ UNCHANGED << stdout, pc, i >>
    /\ UNCHANGED << csv, df, disk, written, nsaved, fetch, run, doneRuns >>

RunStep1 == pc = "S1" /\ Analysis(Step1(df, HumanCols[i]))

RunStep2 == pc = "S2" /\ Analysis(Step2(df, HumanCols[i]))

RunStep3 == pc = "S3" /\ Analysis(Step3(df))

RunStep4 == pc = "S4" /\ Analysis(Step4(df))

RunStep5 == pc = "S5" /\ Analysis(Step5(df))

RunStep6 == pc = "S6" /\ Analysis(Step6(df))

RunStep7 == pc = "S7" /\ Analysis(Step7(df))

RunStep8 == pc = "S8" /\ Analysis(Step8(df))

RunStep9 == pc = "S9" /\ Analysis(Step9(df))

RunStep10 == pc = "S10" /\ Analysis(Step10(df))

RunStep11 == pc = "S11" /\ Analysis(Step11(df))

\* plt.title(...) and save_fig(filename): the file is written (replacing one
\* of the same name), the figure is closed, and the step is over.  The write
\* may fail, which nothing catches.
SaveFig ==
    /\ status = "running" /\ frame # NoCall
    /\ \E ok \in BOOLEAN :
         IF ok
         THEN /\ disk' = Saved(disk, frame)
              /\ written' = written \cup {frame.filename}
              /\ nsaved' = nsaved + 1
              /\ figs' = PltClose(figs)
              /\ frame' = NoCall
              /\ pc' = After(pc, i).pc
              /\ i' = After(pc, i).i
              /\ UNCHANGED status
         ELSE /\ status' = "raised"
              /\ UNCHANGED << disk, written, nsaved, figs, frame, pc, i >>
    /\ UNCHANGED << csv, df, ncalls, stdout, fetch, run, doneRuns >>

\* print("Analise e graficos gerados com sucesso!") and the end of the script.
Finish ==
    /\ status = "running" /\ pc = "END"
    /\ stdout' = Append(stdout, "Analise e graficos gerados com sucesso!")
    /\ status' = "done"
    /\ doneRuns' = doneRuns \cup {written}
    /\ UNCHANGED << csv, df, pc, i, frame, figs, disk, written, nsaved, ncalls,
                    fetch, run >>

\* The script is run again, in a new process, after a run that ended without
\* an uncaught exception; the files of earlier runs are still in place.
Rerun ==
    /\ status \in {"done", "exited"}
    /\ run < MaxRuns
    /\ run' = run + 1
    /\ df' = NoDataset
    /\ pc' = "INIT"
    /\ i' = 1
    /\ status' = "running"
    /\ frame' = NoCall
    /\ figs' = 0
    /\ written' = {}
    /\ nsaved' = 0
    /\ ncalls' = 0
    /\ stdout' = << >>
    /\ fetch' = "pending"
    /\ UNCHANGED << csv, disk, doneRuns >>

Next ==
    \/ Mount
    \/ Acquire
    \/ CheckLoaded
    \/ Encode
    \/ RunStep1
    \/ RunStep2
    \/ RunStep3
    \/ RunStep4
    \/ RunStep5
    \/ RunStep6
    \/ RunStep7
    \/ RunStep8
    \/ RunStep9
    \/ RunStep10
    \/ RunStep11
    \/ SaveFig
    \/ Finish
    \/ Rerun

Spec == Init /\ [][Next]_vars

SpecTable == InitTable /\ [][Next]_vars

\* ------------------------------------------------------------------ claims
\* The file names of a run that draws every chart.
SeventeenFiles ==
    { "1_hist_Coerencia (Humana).png", "1_hist_Relevancia (Humana).png",
      "1_hist_Profundidade (Humana).png", "1_hist_Consciencia (Humana).png",
      "2_boxplot_Coerencia (Humana).png", "2_boxplot_Relevancia (Humana).png",
      "2_boxplot_Profundidade (Humana).png", "2_boxplot_Consciencia (Humana).png",
      "3_scatter_bleu_rouge.png", "4_hist_perplexidade.png",
      "5_violin_perplexidade.png", "6_scatter_perplexidade_coerencia.png",
      "7_heatmap.png", "8_scatter_diversidade_originalidade.png",
      "9_boxplot_diversidade.png", "10_boxplot_originalidade.png",
      "11_scatter_profundidade_consciencia.png" }

HasAllExpected == ExpectedColumns \subseteq csv.columns

\* C1 as stated: a completed run on a dataset with all the expected columns
\* has written exactly eleven image files.
C1_ElevenArtifacts ==
    (status = "done" /\ HasAllExpected) => Cardinality(written) = 11

\* C1, amended: a completed run on a dataset with all the expected columns
\* has written exactly seventeen image files, each under its fixed name: four
\* histograms and four boxplots (one per human-rating column) in steps 1 and
\* 2, and one file for each of the steps 3 to 11.
C1_SeventeenArtifacts ==
    (status = "done" /\ HasAllExpected) =>
        /\ written = SeventeenFiles
        /\ Cardinality(written) = 17
        /\ DOMAIN disk = SeventeenFiles

C1_Witness == status = "done" /\ HasAllExpected /\ run = 1 /\ nsaved = 17

AcquisitionFailed == fetch \in FetchOutcomes \ {"ok"}

\* C3: when the acquisition fails, the loader returns None and raises nothing,
\* and the run goes from the None test straight to exit(): the encoder and the
\* chart steps never run, no generator is invoked and no image file is written
\* by that run.
C3_AcquisitionFailureAborts ==
    AcquisitionFailed =>
        /\ df = NoDataset
        /\ status \in {"running", "exited"}
        /\ pc = "CHECK"
        /\ written = {} /\ nsaved = 0 /\ ncalls = 0 /\ figs = 0 /\ frame = NoCall
        /\ stdout[1] = "Erro ao carregar dados da URL: " \o fetch
        /\ (status = "exited" => Len(stdout) = 2)

\* A second run whose download fails, beside the files of the first run.
C3_Witness ==
    /\ run = 2 /\ fetch = "parse" /\ status = "exited"
    /\ DOMAIN disk # {} /\ written = {}

\* C8: every generator opens one figure and save_fig closes it after writing
\* one file: never more than one figure is open, exactly one is open while a
\* generator is between its plotting call and its save, none is open when an
\* analysis step begins or when the run is done, and every generator call that
\* returned has saved exactly once.
C8_RenderSurfaceReset ==
    /\ figs \in {0, 1}
    /\ (frame # NoCall <=> figs = 1)
    /\ (status = "running" /\ frame = NoCall => figs = 0)
    /\ (status = "done" => figs = 0 /\ frame = NoCall)
    /\ ncalls = nsaved + (IF frame = NoCall THEN 0 ELSE 1)

C8_Witness ==
    /\ status = "running" /\ pc = "S7" /\ frame = NoCall
    /\ nsaved >= 2 /\ figs = 0

\* C10: within one run no image file is written twice (the file names handed
\* to save_fig are pairwise distinct), so at the end of a run the number of
\* image files equals the number of generator invocations, and every completed
\* run on the same dataset writes the same set of file names.
C10_NoOverwrite ==
    /\ Cardinality(written) = nsaved
    /\ (status = "done" =>
          /\ Cardinality(written) = ncalls
          /\ DOMAIN disk = written)
    /\ Cardinality(doneRuns) <= 1
    /\ (pc = "END" /\ doneRuns # {} => doneRuns = {written})

\* A second run about to finish after a first run that drew every chart.
C10_Witness ==
    /\ run = 2 /\ pc = "END" /\ status = "running"
    /\ doneRuns = {written} /\ Cardinality(written) = 17

\* The columns each analysis position tests for, read off the eleven blocks of
\* __main__; the heatmap's block tests for none.
Required(p, k) ==
    CASE p = "S1"  -> { HumanCols[k] }
      [] p = "S2"  -> { CategoriaPrompt, HumanCols[k] }
      [] p = "S3"  -> { "BLEU", "ROUGE" }
      [] p = "S4"  -> { "Perplexidade" }
      [] p = "S5"  -> { "Perplexidade", CategoriaPrompt }
      [] p = "S6"  -> { "Perplexidade", "Coerencia (Humana)" }
      [] p = "S7"  -> { }
      [] p = "S8"  -> { "Diversidade", "Originalidade" }
      [] p = "S9"  -> { "Diversidade", CategoriaPrompt }
      [] p = "S10" -> { "Originalidade", CategoriaPrompt }
      [] p = "S11" -> { "Profundidade (Humana)", "Consciencia (Humana)" }
      [] OTHER     -> { }

AtStep == status = "running" /\ pc \in AnalysisPcs /\ frame = NoCall

ColumnsMissing == ~ (Required(pc, i) \subseteq df.columns)

MovedOn == status' = "running" /\ pc' = After(pc, i).pc /\ i' = After(pc, i).i

\* C4 as stated: once the dataset is loaded, nothing that fails inside an
\* analysis step stops the run.
C4_NoStepHaltsRun == ~ (status = "raised" /\ pc \in AnalysisPcs)

\* C4, amended: a step that finds its columns missing never stops the run (it
\* prints its diagnostic and the next step is attempted); a run stops inside
\* the analysis only by an exception raised in a chart generator, in its
\* plotting call or in its save, which nothing catches: that step's file and
\* all later steps are then lost.
C4_OnlyGeneratorFailureHalts ==
    [][ /\ (AtStep /\ ColumnsMissing => MovedOn /\ Len(stdout') = Len(stdout) + 1)
        /\ (AtStep /\ status' = "raised" => ~ ColumnsMissing /\ frame' # NoCall)
        /\ (pc \in AnalysisPcs /\ status = "running" /\ status' # "running" =>
              /\ status' = "raised"
              /\ frame' # NoCall
              /\ UNCHANGED << pc, i, disk, written >>)
        /\ (status = "raised" => UNCHANGED vars)
      ]_vars

\* A run stopped by a generator after earlier steps were skipped and drawn.
C4_Witness ==
    /\ status = "raised" /\ pc = "S9" /\ nsaved >= 3
    /\ Len(stdout) >= 3 /\ fetch = "ok"

\* C5 as stated: at every one of the eleven steps a generator is invoked only
\* behind a test for columns of the dataset, so none is ever invoked on a
\* dataset that has none of the expected columns.
C5_EveryStepGated ==
    frame # NoCall =>
        /\ Required(pc, i) \subseteq df.columns
        /\ df.columns \cap ExpectedColumns # {}

\* C5, amended: ten of the eleven steps (1 to 6 and 8 to 11) are gated by a
\* column test: the generator is invoked (and, unless it raises, its file is
\* written) exactly when all the columns the step needs are present, and
\* otherwise the step prints one diagnostic, writes nothing and the run goes on
\* with the next step.  Step 7, the heatmap, has no gate: its generator is
\* invoked on every run that reaches it, whatever the dataset's columns.
C5_TenStepsGated ==
    [][ /\ (AtStep /\ (pc = "S7" \/ ~ ColumnsMissing) =>
              /\ ncalls' = ncalls + 1
              /\ frame' # NoCall
              /\ stdout' = stdout)
        /\ (AtStep /\ pc # "S7" /\ ColumnsMissing =>
              /\ ncalls' = ncalls /\ frame' = NoCall /\ figs' = figs
              /\ Len(stdout') = Len(stdout) + 1
              /\ disk' = disk /\ written' = written
              /\ MovedOn)
        /\ (run' = run /\ written' # written =>
              /\ frame # NoCall
              /\ Required(pc, i) \subseteq df.columns
              /\ written' = written \cup {frame.filename}
              /\ MovedOn)
      ]_vars

\* The heatmap drawn for a table whose only column is BLEU, after the encoder's
\* diagnostic and those of steps 1 to 6 (twelve, steps 1 and 2 printing one
\* per column).
C5_Witness ==
    /\ pc = "S8" /\ status = "running" /\ csv.columns = {"BLEU"}
    /\ written = {"7_heatmap.png"} /\ Len(stdout) = 13

\* C7: after it is loaded the dataset changes only in the encoding stage:
\* when that stage completes, CategoriaPrompt_encoded has been assigned as a
\* numeric column if CategoriaPrompt is present, and otherwise a diagnostic
\* was printed and the dataset is as it was; no analysis step and no generator
\* adds, removes or retypes a column.
C7_DatasetFrame ==
    [][ /\ csv' = csv
        /\ (run' = run /\ pc \notin {"INIT", "ACQUIRE", "ENCODE"} => df' = df)
        /\ (pc = "ACQUIRE" /\ df' # df => df' = csv)
        /\ (pc = "ENCODE" /\ pc' # pc =>
              IF CategoriaPrompt \in df.columns
              THEN /\ df'.columns = df.columns \cup {Encoded}
                   /\ df'.numeric = df.numeric \cup {Encoded}
                   /\ stdout' = stdout
              ELSE /\ df' = df
                   /\ Len(stdout') = Len(stdout) + 1)
        /\ (pc = "ENCODE" /\ pc' = pc => df' = df)
      ]_vars

\* The derived column in place, and still the only change, late in a run.
C7_Witness ==
    /\ status = "done"
    /\ Encoded \notin csv.columns
    /\ df.columns = csv.columns \cup {Encoded}
    /\ nsaved >= 5

\* C9 as stated: every column named to a generator is a column of the
\* dataset, and CategoriaPrompt_encoded is passed as hue only when the
\* encoding stage made it (CategoriaPrompt was there to encode).
C9_HueOnlyFromEncoder ==
    frame # NoCall =>
        /\ Refs(frame) \subseteq df.columns
        /\ (frame.hue = Encoded => CategoriaPrompt \in csv.columns)

\* C9, amended: every column named to a generator (x, y, the histogram's
\* column, a hue or style other than None) is a column of the dataset at the
\* call; CategoriaPrompt_encoded is passed as hue, by the scatterplot steps
\* only, exactly when the dataset has a column of that name at the call,
\* whether the encoding stage made it or the loaded table already had it, and
\* None is passed otherwise.
C9_GeneratorPrecondition ==
    frame # NoCall =>
        /\ Refs(frame) \subseteq df.columns
        /\ frame.style = None
        /\ frame.hue = IF frame.gen = "scatterplot" /\ Encoded \in df.columns
                       THEN Encoded ELSE None

\* A scatterplot coloured by a column the table came with.
C9_Witness ==
    /\ frame.gen = "scatterplot" /\ frame.hue = Encoded
    /\ CategoriaPrompt \notin csv.columns /\ status = "running"

\* The table with exactly the expected columns, typed as expected.
FullTable == DataFrame(ExpectedColumns, ExpectedColumns \ {CategoriaPrompt})

FullRun == CompletedRun(FullTable)

MissingOnly(c) == csv.columns = ExpectedColumns \ {c}

Positions ==
    ({"S1", "S2"} \X (1..Len(HumanCols))) \cup ((AnalysisPcs \ {"S1", "S2"}) \X {1})

\* The file each analysis position saves to.
FileOf(p, k) ==
    CASE p = "S1"  -> "1_hist_" \o HumanCols[k] \o ".png"
      [] p = "S2"  -> "2_boxplot_" \o HumanCols[k] \o ".png"
      [] p = "S3"  -> "3_scatter_bleu_rouge.png"
      [] p = "S4"  -> "4_hist_perplexidade.png"
      [] p = "S5"  -> "5_violin_perplexidade.png"
      [] p = "S6"  -> "6_scatter_perplexidade_coerencia.png"
      [] p = "S7"  -> "7_heatmap.png"
      [] p = "S8"  -> "8_scatter_diversidade_originalidade.png"
      [] p = "S9"  -> "9_boxplot_diversidade.png"
      [] p = "S10" -> "10_boxplot_originalidade.png"
      [] p = "S11" -> "11_scatter_profundidade_consciencia.png"

\* The files of the steps that test for column c.
Needing(c) == { FileOf(q[1], q[2]) : q \in { r \in Positions : c \in Required(r[1], r[2]) } }

ScatterFiles ==
    { "3_scatter_bleu_rouge.png", "6_scatter_perplexidade_coerencia.png",
      "8_scatter_diversidade_originalidade.png",
      "11_scatter_profundidade_consciencia.png" }

\* The files whose picture depends on column c without their step testing for
\* it: the heatmap, whose matrix spans every numeric column, and, for
\* CategoriaPrompt, the scatterplots coloured by its codes.
DependingOn(c) ==
    {"7_heatmap.png"} \cup (IF c = CategoriaPrompt THEN ScatterFiles ELSE {})

\* C2 as stated: on a dataset lacking exactly one expected column c, the
\* steps that need c are skipped and every other step produces the same
\* artifact as in the run on all the columns.
C2_OtherStepsSameArtifact ==
    \A c \in ExpectedColumns :
        (status = "done" /\ MissingOnly(c)) =>
            /\ written = SeventeenFiles \ Needing(c)
            /\ \A f \in written : disk[f] = FullRun[f]

\* C2, amended: on a dataset lacking exactly one expected column c, every
\* step that tests for c is skipped with one diagnostic and no file, and every
\* other step still writes its file under the same name.  The picture is the
\* same as in the all-columns run except for the heatmap, whose matrix loses
\* c (or, when c is CategoriaPrompt, the derived code column), and, when c is
\* CategoriaPrompt, for the four scatterplots, which lose their hue.
C2_OtherStepsStillWrite ==
    \A c \in ExpectedColumns :
        (status = "done" /\ MissingOnly(c)) =>
            /\ written = SeventeenFiles \ Needing(c)
            /\ DOMAIN disk = written
            /\ Len(stdout) = Cardinality(Needing(c)) + 1
                               + (IF c = CategoriaPrompt THEN 1 ELSE 0)
            /\ \A f \in written \ DependingOn(c) : disk[f] = FullRun[f]
            /\ disk["7_heatmap.png"].corr =
                 FullRun["7_heatmap.png"].corr
                   \ {IF c = CategoriaPrompt THEN Encoded ELSE c}
            /\ \A f \in DependingOn(c) \ {"7_heatmap.png"} :
                 /\ FullRun[f].hue = Encoded
                 /\ disk[f] = [FullRun[f] EXCEPT !.hue = None]
            /\ disk = CompletedRun(csv)

\* A completed run without CategoriaPrompt: seven files skipped, ten written.
C2_Witness ==
    /\ status = "done" /\ MissingOnly(CategoriaPrompt)
    /\ Cardinality(written) = 10 /\ run = 1

OneStringTwoNumeric == Cardinality(csv.columns) = 3 /\ Cardinality(csv.numeric) = 2

\* C6 as stated: for a table with one string column and two numeric columns,
\* whatever the string column is called, the correlation step's matrix is
\* 2x2.
C6_MatrixTwoByTwo ==
    (frame.gen = "heatmap" /\ OneStringTwoNumeric) => Cardinality(frame.corr) = 2

\* C6, amended: the correlation step's matrix spans exactly the numeric-typed
\* columns of the dataset as the run has it at step 7: the table's numeric
\* columns plus CategoriaPrompt_encoded whenever the table has a
\* CategoriaPrompt column.  For a table with one string column and two numeric
\* columns the matrix is 2x2, unless the table has a CategoriaPrompt column and
\* no numeric column already named CategoriaPrompt_encoded: then it is 3x3.
C6_MatrixOverNumericColumns ==
    frame.gen = "heatmap" =>
        /\ frame.corr = df.numeric
        /\ frame.corr =
             csv.numeric \cup (IF CategoriaPrompt \in csv.columns THEN {Encoded} ELSE {})
        /\ (OneStringTwoNumeric =>
              Cardinality(frame.corr) =
                 IF CategoriaPrompt \in csv.columns /\ Encoded \notin csv.numeric
                 THEN 3 ELSE 2)

\* The 2x2 matrix of a three-column table whose string column is "Extra".
C6_Witness ==
    /\ frame.gen = "heatmap" /\ status = "running" /\ OneStringTwoNumeric
    /\ "Extra" \in csv.columns \ csv.numeric
    /\ Cardinality(frame.corr) = 2

====
